---- MODULE Spec2Model ----
(***************************************************************************)
(* Model of the DB-backed OCI discovery (package discovery): the digest    *)
(* marker check, the refresh of the plugin inventory database and the      *)
(* List / GetGroups entry points.                                          *)
(*                                                                         *)
(* The cache directory (pluginDataDir) is shared state: the set of digest  *)
(* marker files and the content of plugin_inventory.db.  The registry is   *)
(* the environment: the digest of the inventory image and of the optional  *)
(* inventory metadata image.  Every call of List / GetGroups is run by a   *)
(* process p and is cut into steps at each call of a collaborator (digest  *)
(* probe, signature verification, download, merge, copy, file creation).   *)
(*                                                                         *)
(* A file name is the sequence of its dot-separated components:            *)
(* "metadata.digest.none" is <<"metadata", "digest", "none">>; the empty   *)
(* string is <<>>.  os.Remove and filepath.Glob are taken to succeed (the  *)
(* code ignores their errors); os.Create may fail.                         *)
(***************************************************************************)
EXTENDS Integers, Sequences, FiniteSets, TLC

VARIABLES
    markers,      \* names of the files "*digest.*" present in pluginDataDir
    db,           \* content of pluginDataDir/plugin_inventory.db
    remoteBase,   \* digest the registry currently serves for od.image
    remoteMeta,   \* digest of the inventory metadata image, "" when absent
    calls,        \* per process: the state of its List / GetGroups call
    store         \* the rows GetPlugins returns for the filter of the source

vars == <<markers, db, remoteBase, remoteMeta, calls, store>>

----------------------------------------------------------------------------
(* Bounds *)

NumMetaDigests == 1    \* digests the inventory metadata image takes
MaxEntries == 2        \* rows GetPlugins returns
MaxInitMarkers == 4    \* marker files in pluginDataDir at the start

\* The invocations that share pluginDataDir; the calls made one after the
\* other are those of the first
Procs == {1, 2}
SeqProcs == {1}

Hex(i) == "D" \o ToString(i)
\* The digests the inventory image takes: the one cached and a new one
Digests == {"D1", "D2"}
MetaDigests == {Hex(i) : i \in 1..NumMetaDigests}

----------------------------------------------------------------------------
(* File contents *)

NoFile == [base |-> "", meta |-> ""]
PartialFile == [base |-> "partial", meta |-> "partial"]

\* plugin_inventory.db as downloaded from the inventory image of digest b
BaseContent(b) == [base |-> b, meta |-> "none"]

\* UpdatePluginInventoryDatabase: the inventory database updated from the
\* metadata database of digest m
MergedContent(c, m) == [c EXCEPT !.meta = m]

Contents == {[base |-> b, meta |-> m] : b \in Digests, m \in MetaDigests \cup {"none"}}

----------------------------------------------------------------------------
(* Marker file names *)

BasePrefix == <<>>
MetaPrefix == <<"metadata">>

\* digestPrefix+"digest."+hashHexVal, "none" standing for the empty digest
HashFileName(hashHexVal, digestPrefix) ==
    digestPrefix \o <<"digest", IF hashHexVal = "" THEN "none" ELSE hashHexVal>>

GlobMatches_AnyPrefix(files, digestPrefix) ==
    {f \in files : \E i \in 1..Len(f) : f[i] = "digest"}

\* filepath.Glob(digestPrefix+"digest.*"): the names that start with the
\* components of digestPrefix followed by "digest" and at least a dot
GlobMatches(files, digestPrefix) ==
    {f \in files :
        /\ Len(f) >= Len(digestPrefix) + 2
        /\ SubSeq(f, 1, Len(digestPrefix) + 1) = digestPrefix \o <<"digest">>}

AllMarkerNames ==
    {HashFileName(d, BasePrefix) : d \in Digests}
        \cup {HashFileName(d, MetaPrefix) : d \in MetaDigests \cup {""}}

DigestFilesAfterCheck_Recreate(files, hashHexVal, digestPrefix) ==
    (files \ GlobMatches(files, digestPrefix))
        \cup {HashFileName(hashHexVal, digestPrefix)}

DigestFilesAfterCheck_KeepStale(files, hashHexVal, digestPrefix) ==
    LET matches == GlobMatches(files, digestPrefix)
    IN  IF Cardinality(matches) > 1 THEN files \ matches ELSE files

DigestFilesAfterCheck_NoCleanup(files, hashHexVal, digestPrefix) ==
    LET correctHashFile == HashFileName(hashHexVal, digestPrefix)
        matches == GlobMatches(files, digestPrefix)
    IN  IF Cardinality(matches) = 1 /\ matches # {correctHashFile}
        THEN files \ matches
        ELSE files

\* checkDigestFileExistence, the files left in the directory
DigestFilesAfterCheck(files, hashHexVal, digestPrefix) ==
    LET correctHashFile == HashFileName(hashHexVal, digestPrefix)
        matches == GlobMatches(files, digestPrefix)
    IN  IF Cardinality(matches) > 1
        THEN files \ matches
        ELSE IF Cardinality(matches) = 1 /\ matches # {correctHashFile}
             THEN files \ matches
             ELSE files

checkDigestFileExistence_AnySingle(files, hashHexVal, digestPrefix) ==
    IF Cardinality(GlobMatches(files, digestPrefix)) = 1
    THEN <<>>
    ELSE HashFileName(hashHexVal, digestPrefix)

checkDigestFileExistence_AlwaysStale(files, hashHexVal, digestPrefix) ==
    HashFileName(hashHexVal, digestPrefix)

\* checkDigestFileExistence, the returned name (<<>> is the empty string)
checkDigestFileExistence(files, hashHexVal, digestPrefix) ==
    LET correctHashFile == HashFileName(hashHexVal, digestPrefix)
        matches == GlobMatches(files, digestPrefix)
    IN  IF Cardinality(matches) = 1 /\ matches = {correctHashFile}
        THEN <<>>
        ELSE correctHashFile

----------------------------------------------------------------------------
(* Errors: a message is the sequence of its parts, nil is <<>> *)

DiscoveryName == "default"
Image == "registry/plugin-inventory:latest"

Wrap(err, msg) == msg \o err

ErrResolution ==
    Wrap(<<"digest lookup failed">>,
         <<"plugins discovery image resolution failed", Image>>)
ErrVerify == <<"signature verification failed">>
ErrTempDir == Wrap(<<"mkdir failed">>, <<"unable to create temp directory">>)
ErrDownload ==
    Wrap(<<"download failed">>,
         <<"failed to download OCI image from discovery", DiscoveryName>>)
ErrMerge ==
    Wrap(<<"update failed">>,
         <<"error while updating inventory database based on the inventory metadata database">>)
ErrCopy == <<"copy failed">>
ErrQuery == <<"query failed">>

ListWrap(err) ==
    Wrap(err, <<"unable to fetch the inventory of discovery", DiscoveryName, "for plugins">>)
GetGroupsWrap(err) ==
    Wrap(err, <<"unable to fetch the inventory of discovery", DiscoveryName, "for groups">>)

----------------------------------------------------------------------------
(* Per-call state *)

\* Summary of the preceding call: whether it ran checkImageCache to its end,
\* whether fetchInventoryImage then returned nil with every marker it had to
\* create in place, and the digests its probes returned
NoPrev ==
    [checked |-> FALSE, ok |-> FALSE, unmarked |-> FALSE, cut |-> FALSE,
     refreshed |-> FALSE, hashBase |-> "", hashMeta |-> ""]

IdleCall ==
    [pc |-> "idle",
     op |-> "List",            \* List or GetGroups
     local |-> FALSE,          \* od.useLocalCacheOnly
     hashBase |-> "",          \* hashHexValInventoryImage
     hashMeta |-> "",          \* hashHexValMetadataImage
     newBase |-> <<>>,         \* newCacheHashFileForInventoryImage
     newMeta |-> <<>>,         \* newCacheHashFileForMetadataImage
     dir1 |-> FALSE,           \* tempDir1 exists
     dir2 |-> FALSE,           \* tempDir2 exists
     tmp1 |-> NoFile,          \* tempDir1/plugin_inventory.db
     tmp2 |-> "",              \* tempDir2/plugin_inventory_metadata.db
     err |-> <<>>,             \* error returned so far
     result |-> "unset",       \* value returned by List / GetGroups
     log |-> <<>>,             \* collaborator calls made, in order
     preMarkers |-> {},        \* markers when the call began
     preDb |-> NoFile,         \* db when the call began
     prev |-> NoPrev]          \* what the call before this one did

TypeOK ==
    /\ markers \subseteq AllMarkerNames
    /\ db \in Contents \cup {NoFile, PartialFile}
    /\ remoteBase \in Digests
    /\ remoteMeta \in MetaDigests \cup {""}
    /\ DOMAIN calls = Procs

Init ==
    /\ markers \in {m \in SUBSET AllMarkerNames : Cardinality(m) <= MaxInitMarkers}
    /\ db \in Contents \cup {NoFile}
    /\ remoteBase \in Digests
    /\ remoteMeta \in MetaDigests \cup {""}
    /\ calls = [p \in Procs |-> IdleCall]
    /\ store = <<>>

----------------------------------------------------------------------------
(* The log of a call: one entry per call of a collaborator *)

Ev(what, ok) == [what |-> what, ok |-> ok]

RECURSIVE CountIn(_, _)
CountIn(log, what) ==
    IF log = <<>> THEN 0
    ELSE (IF Head(log).what = what THEN 1 ELSE 0) + CountIn(Tail(log), what)

Did(c, what, ok) == \E i \in 1..Len(c.log) : c.log[i] = Ev(what, ok)

NetworkFetches(c) ==
    CountIn(c.log, "verify") + CountIn(c.log, "downloadBase")
        + CountIn(c.log, "downloadMeta")

----------------------------------------------------------------------------
(* List / GetGroups *)

Summary(c) ==
    IF c.pc = "done" /\ Did(c, "probeBase", TRUE)
    THEN [checked |-> TRUE,
          ok |-> /\ CountIn(c.log, "query") = 1
                 /\ ~Did(c, "createBase", FALSE)
                 /\ ~Did(c, "createMeta", FALSE),
          unmarked |-> /\ CountIn(c.log, "query") = 1
                       /\ \/ Did(c, "createBase", FALSE)
                          \/ Did(c, "createMeta", FALSE),
          cut |-> FALSE,
          refreshed |-> Did(c, "copy", TRUE),
          hashBase |-> c.hashBase,
          hashMeta |-> c.hashMeta]
    ELSE IF c.pc = "idle" THEN c.prev ELSE NoPrev

Begin_AlwaysFetch(p, op, local) ==
    /\ calls[p].pc \in {"idle", "done"}
    /\ calls' = [calls EXCEPT ![p] =
            [IdleCall EXCEPT !.pc = "probeBase",
                             !.op = op,
                             !.local = local,
                             !.preMarkers = markers,
                             !.preDb = db,
                             !.prev = Summary(calls[p])]]
    /\ UNCHANGED <<markers, db, remoteBase, remoteMeta, store>>

Begin_GroupsNoFetch(p, op, local) ==
    /\ calls[p].pc \in {"idle", "done"}
    /\ calls' = [calls EXCEPT ![p] =
            [IdleCall EXCEPT !.pc = IF local \/ op = "GetGroups"
                                    THEN "query" ELSE "probeBase",
                             !.op = op,
                             !.local = local,
                             !.preMarkers = markers,
                             !.preDb = db,
                             !.prev = Summary(calls[p])]]
    /\ UNCHANGED <<markers, db, remoteBase, remoteMeta, store>>

\* List (66-79) and GetGroups (83-96): entry, the useLocalCacheOnly gate
Begin(p, op, local) ==
    /\ calls[p].pc \in {"idle", "done"}
    /\ calls' = [calls EXCEPT ![p] =
            [IdleCall EXCEPT !.pc = IF local THEN "query" ELSE "probeBase",
                             !.op = op,
                             !.local = local,
                             !.preMarkers = markers,
                             !.preDb = db,
                             !.prev = Summary(calls[p])]]
    /\ UNCHANGED <<markers, db, remoteBase, remoteMeta, store>>

ProbeBase_ErrorDropped(p) ==
    /\ calls[p].pc = "probeBase"
    /\ \E ok \in BOOLEAN :
          calls' = [calls EXCEPT
              ![p].log = Append(@, Ev("probeBase", ok)),
              ![p].hashBase = IF ok THEN remoteBase ELSE "",
              ![p].pc = "checkBase"]
    /\ UNCHANGED <<markers, db, remoteBase, remoteMeta, store>>

\* checkImageCache: GetImageDigest(od.image)
ProbeBase(p) ==
    /\ calls[p].pc = "probeBase"
    /\ \E ok \in BOOLEAN :
          calls' = [calls EXCEPT
              ![p].log = Append(@, Ev("probeBase", ok)),
              ![p].hashBase = IF ok THEN remoteBase ELSE "",
              ![p].err = IF ok THEN <<>> ELSE ErrResolution,
              ![p].pc = IF ok THEN "checkBase" ELSE "return"]
    /\ UNCHANGED <<markers, db, remoteBase, remoteMeta, store>>

CheckBase_NoDelete(p) ==
    /\ calls[p].pc = "checkBase"
    /\ markers' = markers
    /\ calls' = [calls EXCEPT
          ![p].newBase = checkDigestFileExistence(markers, calls[p].hashBase, BasePrefix),
          ![p].pc = "probeMeta"]
    /\ UNCHANGED <<db, remoteBase, remoteMeta, store>>

\* checkImageCache: checkDigestFileExistence(hashHexValInventoryImage, "")
CheckBase(p) ==
    /\ calls[p].pc = "checkBase"
    /\ markers' = DigestFilesAfterCheck(markers, calls[p].hashBase, BasePrefix)
    /\ calls' = [calls EXCEPT
          ![p].newBase = checkDigestFileExistence(markers, calls[p].hashBase, BasePrefix),
          ![p].pc = "probeMeta"]
    /\ UNCHANGED <<db, remoteBase, remoteMeta, store>>

\* checkImageCache: GetImageDigest(pluginInventoryMetadataImage), error dropped
ProbeMeta(p) ==
    /\ calls[p].pc = "probeMeta"
    /\ \E ok \in BOOLEAN :
          /\ ok => remoteMeta # ""
          /\ calls' = [calls EXCEPT
                ![p].log = Append(@, Ev("probeMeta", ok)),
                ![p].hashMeta = IF ok THEN remoteMeta ELSE "",
                ![p].pc = "checkMeta"]
    /\ UNCHANGED <<markers, db, remoteBase, remoteMeta, store>>

CheckMeta_SkipVerify(p) ==
    /\ calls[p].pc = "checkMeta"
    /\ markers' = DigestFilesAfterCheck(markers, calls[p].hashMeta, MetaPrefix)
    /\ LET newMeta == checkDigestFileExistence(markers, calls[p].hashMeta, MetaPrefix)
       IN  calls' = [calls EXCEPT
               ![p].newMeta = newMeta,
               ![p].pc = IF calls[p].newBase = <<>> /\ newMeta = <<>>
                         THEN "query" ELSE "mkTemp1"]
    /\ UNCHANGED <<db, remoteBase, remoteMeta, store>>

\* checkImageCache: checkDigestFileExistence(hashHexValMetadataImage,
\* "metadata."), then the test of fetchInventoryImage on the two names
CheckMeta(p) ==
    /\ calls[p].pc = "checkMeta"
    /\ markers' = DigestFilesAfterCheck(markers, calls[p].hashMeta, MetaPrefix)
    /\ LET newMeta == checkDigestFileExistence(markers, calls[p].hashMeta, MetaPrefix)
       IN  calls' = [calls EXCEPT
               ![p].newMeta = newMeta,
               ![p].pc = IF calls[p].newBase = <<>> /\ newMeta = <<>>
                         THEN "query" ELSE "verify"]
    /\ UNCHANGED <<db, remoteBase, remoteMeta, store>>

Verify_Ignored(p) ==
    /\ calls[p].pc = "verify"
    /\ \E ok \in BOOLEAN :
          calls' = [calls EXCEPT
              ![p].log = Append(@, Ev("verify", ok)),
              ![p].pc = "mkTemp1"]
    /\ UNCHANGED <<markers, db, remoteBase, remoteMeta, store>>

\* fetchInventoryImage: VerifyInventoryImageSignature(od.image)
Verify(p) ==
    /\ calls[p].pc = "verify"
    /\ \E ok \in BOOLEAN :
          calls' = [calls EXCEPT
              ![p].log = Append(@, Ev("verify", ok)),
              ![p].err = IF ok THEN <<>> ELSE ErrVerify,
              ![p].pc = IF ok THEN "mkTemp1" ELSE "return"]
    /\ UNCHANGED <<markers, db, remoteBase, remoteMeta, store>>

\* downloadInventoryDatabase: tempDir1
MkTemp1(p) ==
    /\ calls[p].pc = "mkTemp1"
    /\ \E ok \in BOOLEAN :
          calls' = [calls EXCEPT
              ![p].log = Append(@, Ev("mkTemp1", ok)),
              ![p].dir1 = ok,
              ![p].err = IF ok THEN <<>> ELSE ErrTempDir,
              ![p].pc = IF ok THEN "mkTemp2" ELSE "return"]
    /\ UNCHANGED <<markers, db, remoteBase, remoteMeta, store>>

\* downloadInventoryDatabase: tempDir2; on failure the function returns
\* before the two deferred RemoveAll are registered
MkTemp2(p) ==
    /\ calls[p].pc = "mkTemp2"
    /\ \E ok \in BOOLEAN :
          calls' = [calls EXCEPT
              ![p].log = Append(@, Ev("mkTemp2", ok)),
              ![p].dir2 = ok,
              ![p].err = IF ok THEN <<>> ELSE ErrTempDir,
              ![p].pc = IF ok THEN "downloadBase" ELSE "return"]
    /\ UNCHANGED <<markers, db, remoteBase, remoteMeta, store>>

DownloadBase_ErrorDropped(p) ==
    /\ calls[p].pc = "downloadBase"
    /\ \E ok \in BOOLEAN :
          calls' = [calls EXCEPT
              ![p].log = Append(@, Ev("downloadBase", ok)),
              ![p].tmp1 = IF ok THEN BaseContent(remoteBase) ELSE NoFile,
              ![p].pc = "downloadMeta"]
    /\ UNCHANGED <<markers, db, remoteBase, remoteMeta, store>>

\* downloadInventoryDatabase: download of od.image into tempDir1
DownloadBase(p) ==
    /\ calls[p].pc = "downloadBase"
    /\ \E ok \in BOOLEAN :
          calls' = [calls EXCEPT
              ![p].log = Append(@, Ev("downloadBase", ok)),
              ![p].tmp1 = IF ok THEN BaseContent(remoteBase) ELSE NoFile,
              ![p].err = IF ok THEN <<>> ELSE ErrDownload,
              ![p].pc = IF ok THEN "downloadMeta" ELSE "cleanup"]
    /\ UNCHANGED <<markers, db, remoteBase, remoteMeta, store>>

\* downloadInventoryDatabase: download of the metadata image into tempDir2;
\* a failure only skips the update of the database
DownloadMeta(p) ==
    /\ calls[p].pc = "downloadMeta"
    /\ \E ok \in BOOLEAN :
          /\ ok => remoteMeta # ""
          /\ calls' = [calls EXCEPT
                ![p].log = Append(@, Ev("downloadMeta", ok)),
                ![p].tmp2 = IF ok THEN remoteMeta ELSE "",
                ![p].pc = IF ok THEN "merge" ELSE "copy"]
    /\ UNCHANGED <<markers, db, remoteBase, remoteMeta, store>>

Merge_PromoteAnyway(p) ==
    /\ calls[p].pc = "merge"
    /\ \E ok \in BOOLEAN :
          calls' = [calls EXCEPT
              ![p].log = Append(@, Ev("merge", ok)),
              ![p].tmp1 = IF ok THEN MergedContent(@, calls[p].tmp2) ELSE PartialFile,
              ![p].pc = "copy"]
    /\ UNCHANGED <<markers, db, remoteBase, remoteMeta, store>>

\* downloadInventoryDatabase: UpdatePluginInventoryDatabase on tempDir1
Merge(p) ==
    /\ calls[p].pc = "merge"
    /\ \E ok \in BOOLEAN :
          calls' = [calls EXCEPT
              ![p].log = Append(@, Ev("merge", ok)),
              ![p].tmp1 = IF ok THEN MergedContent(@, calls[p].tmp2) ELSE PartialFile,
              ![p].err = IF ok THEN <<>> ELSE ErrMerge,
              ![p].pc = IF ok THEN "copy" ELSE "cleanup"]
    /\ UNCHANGED <<markers, db, remoteBase, remoteMeta, store>>

\* downloadInventoryDatabase: utils.CopyFile into pluginDataDir; a failed
\* copy leaves the old file or a truncated one
Copy(p) ==
    /\ calls[p].pc = "copy"
    /\ \E ok \in BOOLEAN :
          /\ calls' = [calls EXCEPT
                ![p].log = Append(@, Ev("copy", ok)),
                ![p].err = IF ok THEN <<>> ELSE ErrCopy,
                ![p].pc = "cleanup"]
          /\ IF ok THEN db' = calls[p].tmp1 ELSE db' \in {db, PartialFile}
    /\ UNCHANGED <<markers, remoteBase, remoteMeta, store>>

Cleanup_IgnoreError(p) ==
    /\ calls[p].pc = "cleanup"
    /\ calls' = [calls EXCEPT
          ![p].dir1 = FALSE,
          ![p].dir2 = FALSE,
          ![p].tmp1 = NoFile,
          ![p].tmp2 = "",
          ![p].pc = "createBase"]
    /\ UNCHANGED <<markers, db, remoteBase, remoteMeta, store>>

\* downloadInventoryDatabase: the deferred RemoveAll of both directories
Cleanup(p) ==
    /\ calls[p].pc = "cleanup"
    /\ calls' = [calls EXCEPT
          ![p].dir1 = FALSE,
          ![p].dir2 = FALSE,
          ![p].tmp1 = NoFile,
          ![p].tmp2 = "",
          ![p].pc = IF calls[p].err # <<>> THEN "return" ELSE "createBase"]
    /\ UNCHANGED <<markers, db, remoteBase, remoteMeta, store>>

CreateBase_Skipped(p) ==
    /\ calls[p].pc = "createBase"
    /\ markers' = markers
    /\ calls' = [calls EXCEPT
          ![p].log = IF calls[p].newBase = <<>> THEN @
                     ELSE Append(@, Ev("createBase", TRUE)),
          ![p].pc = "createMeta"]
    /\ UNCHANGED <<db, remoteBase, remoteMeta, store>>

CreateBase_Fatal(p) ==
    /\ calls[p].pc = "createBase"
    /\ IF calls[p].newBase = <<>>
       THEN /\ markers' = markers
            /\ calls' = [calls EXCEPT ![p].pc = "createMeta"]
       ELSE \E ok \in BOOLEAN :
            /\ markers' = IF ok THEN markers \cup {calls[p].newBase} ELSE markers
            /\ calls' = [calls EXCEPT
                  ![p].log = Append(@, Ev("createBase", ok)),
                  ![p].err = IF ok THEN <<>> ELSE ErrCopy,
                  ![p].pc = IF ok THEN "createMeta" ELSE "return"]
    /\ UNCHANGED <<db, remoteBase, remoteMeta, store>>

\* fetchInventoryImage: os.Create(newCacheHashFileForInventoryImage)
CreateBase(p) ==
    /\ calls[p].pc = "createBase"
    /\ IF calls[p].newBase = <<>>
       THEN /\ markers' = markers
            /\ calls' = [calls EXCEPT ![p].pc = "createMeta"]
       ELSE \E ok \in BOOLEAN :
            /\ markers' = IF ok THEN markers \cup {calls[p].newBase} ELSE markers
            /\ calls' = [calls EXCEPT
                  ![p].log = Append(@, Ev("createBase", ok)),
                  ![p].pc = "createMeta"]
    /\ UNCHANGED <<db, remoteBase, remoteMeta, store>>

CreateMeta_WrongName(p) ==
    /\ calls[p].pc = "createMeta"
    /\ IF calls[p].newMeta = <<>>
       THEN /\ markers' = markers
            /\ calls' = [calls EXCEPT ![p].pc = "query"]
       ELSE \E ok \in BOOLEAN :
            /\ markers' = IF ok
                          THEN markers \cup {HashFileName(calls[p].hashBase, BasePrefix)}
                          ELSE markers
            /\ calls' = [calls EXCEPT
                  ![p].log = Append(@, Ev("createMeta", ok)),
                  ![p].pc = "query"]
    /\ UNCHANGED <<db, remoteBase, remoteMeta, store>>

\* fetchInventoryImage: os.Create(newCacheHashFileForMetadataImage)
CreateMeta(p) ==
    /\ calls[p].pc = "createMeta"
    /\ IF calls[p].newMeta = <<>>
       THEN /\ markers' = markers
            /\ calls' = [calls EXCEPT ![p].pc = "query"]
       ELSE \E ok \in BOOLEAN :
            /\ markers' = IF ok THEN markers \cup {calls[p].newMeta} ELSE markers
            /\ calls' = [calls EXCEPT
                  ![p].log = Append(@, Ev("createMeta", ok)),
                  ![p].pc = "query"]
    /\ UNCHANGED <<db, remoteBase, remoteMeta, store>>

Return_Unwrapped(p) ==
    /\ calls[p].pc = "return"
    /\ calls' = [calls EXCEPT
          ![p].result = "nil",
          ![p].pc = "done"]
    /\ UNCHANGED <<markers, db, remoteBase, remoteMeta, store>>

\* List / GetGroups: fetchInventoryImage failed, nil and the wrapped error
Return(p) ==
    /\ calls[p].pc = "return"
    /\ calls' = [calls EXCEPT
          ![p].result = "nil",
          ![p].err = IF calls[p].op = "List" THEN ListWrap(@) ELSE GetGroupsWrap(@),
          ![p].pc = "done"]
    /\ UNCHANGED <<markers, db, remoteBase, remoteMeta, store>>

\* listPluginsFromInventory / listGroupsFromInventory: the store query
Query(p) ==
    /\ calls[p].pc = "query"
    /\ \E ok \in BOOLEAN :
          calls' = [calls EXCEPT
              ![p].log = Append(@, Ev("query", ok)),
              ![p].result = IF ok THEN "rows" ELSE "nil",
              ![p].err = IF ok THEN <<>> ELSE ErrQuery,
              ![p].pc = "done"]
    /\ UNCHANGED <<markers, db, remoteBase, remoteMeta, store>>

----------------------------------------------------------------------------
(* listPluginsFromInventory on the rows of the store *)

PluginNames == {"builder", "test"}
VersionStrings == {"1.2.0", "1.10.0", "bogus"}

\* A PluginInventoryEntry: its name and the keys of its Artifacts map
Entries == [Name : PluginNames, Artifacts : SUBSET VersionStrings]

Stores ==
    UNION {[1..n -> Entries] : n \in 0..MaxEntries}

\* The semantic version a string stands for, <<>> when it does not parse
ParseVersion(v) ==
    CASE v = "1.2.0" -> <<1, 2, 0>>
      [] v = "1.10.0" -> <<1, 10, 0>>
      [] OTHER -> <<>>

\* Semantic-version precedence: major, then minor, then patch
Precedes(a, b) ==
    LET x == ParseVersion(a)
        y == ParseVersion(b)
    IN  \/ x[1] < y[1]
        \/ x[1] = y[1] /\ x[2] < y[2]
        \/ x[1] = y[1] /\ x[2] = y[2] /\ x[3] < y[3]

\* The slices holding each key of the map once: the order in which range
\* walks a map is not fixed
Orderings(keys) ==
    {q \in [1..Cardinality(keys) -> keys] :
        \A i, j \in DOMAIN q : i # j => q[i] # q[j]}

\* utils.SortVersions: sorts the slice in place by semantic-version
\* precedence; a string that does not parse is reported as an error and
\* the order is then best effort, the strings that parse in ascending order
SortVersions(keys) ==
    {[err |-> \E v \in keys : ParseVersion(v) = <<>>, versions |-> q] :
        q \in {o \in Orderings(keys) :
                 \A i, j \in DOMAIN o :
                     (/\ i < j
                      /\ ParseVersion(o[i]) # <<>>
                      /\ ParseVersion(o[j]) # <<>>) => ~Precedes(o[j], o[i])}}

\* The Discovered value built from an entry and its sorted versions
Discovered(entry, versions) ==
    [Name |-> entry.Name,
     SupportedVersions |-> versions,
     Distribution |-> entry.Artifacts,
     InstalledVersion |-> "",
     Source |-> DiscoveryName,
     Status |-> "not installed"]

\* listPluginsFromInventory, the loop of lines 124-151: the results the
\* call may return for the rows pluginEntries; the error of SortVersions
\* is printed and the entry appended all the same
RECURSIVE listPluginsFromInventory(_)

listPluginsFromInventory_SkipOnError(pluginEntries) ==
    IF pluginEntries = <<>> THEN {<<>>}
    ELSE {(IF s.err THEN <<>>
           ELSE <<Discovered(Head(pluginEntries), s.versions)>>) \o rest :
             s \in SortVersions(Head(pluginEntries).Artifacts),
             rest \in listPluginsFromInventory(Tail(pluginEntries))}

listPluginsFromInventory(pluginEntries) ==
    IF pluginEntries = <<>> THEN {<<>>}
    ELSE {<<Discovered(Head(pluginEntries), s.versions)>> \o rest :
             s \in SortVersions(Head(pluginEntries).Artifacts),
             rest \in listPluginsFromInventory(Tail(pluginEntries))}

\* List: listPluginsFromInventory, GetPlugins failing or returning the rows
ListPlugins(p) ==
    /\ calls[p].pc = "query" /\ calls[p].op = "List"
    /\ \/ calls' = [calls EXCEPT
              ![p].log = Append(@, Ev("query", FALSE)),
              ![p].result = "nil",
              ![p].err = ErrQuery,
              ![p].pc = "done"]
       \/ \E discoveredPlugins \in listPluginsFromInventory(store) :
            calls' = [calls EXCEPT
              ![p].log = Append(@, Ev("query", TRUE)),
              ![p].result = discoveredPlugins,
              ![p].pc = "done"]
    /\ UNCHANGED <<markers, db, remoteBase, remoteMeta, store>>

\* The registry: the image behind a tag is replaced.  The program observes
\* the registry only when it probes a digest or downloads an image, so a
\* replacement is taken right before such an observation of that image.
AboutToRead(image) ==
    \E p \in Procs :
        calls[p].pc \in (IF image = "base" THEN {"probeBase", "downloadBase"}
                                          ELSE {"probeMeta", "downloadMeta"})

RemoteChangeBase ==
    /\ AboutToRead("base")
    /\ remoteBase' \in Digests \ {remoteBase}
    /\ UNCHANGED <<markers, db, remoteMeta, calls, store>>

RemoteChangeMeta ==
    /\ AboutToRead("meta")
    /\ remoteMeta' \in (MetaDigests \cup {""}) \ {remoteMeta}
    /\ UNCHANGED <<markers, db, remoteBase, calls, store>>

Step(p) ==
    \/ \E op \in {"List", "GetGroups"}, local \in BOOLEAN : Begin(p, op, local)
    \/ ProbeBase(p)
    \/ CheckBase(p)
    \/ ProbeMeta(p)
    \/ CheckMeta(p)
    \/ Verify(p)
    \/ MkTemp1(p)
    \/ MkTemp2(p)
    \/ DownloadBase(p)
    \/ DownloadMeta(p)
    \/ Merge(p)
    \/ Copy(p)
    \/ Cleanup(p)
    \/ CreateBase(p)
    \/ CreateMeta(p)
    \/ Return(p)
    \/ Query(p)

Next == (\E p \in SeqProcs : Step(p)) \/ RemoteChangeBase \/ RemoteChangeMeta

Spec == Init /\ [][Next]_vars

\* The same program started on a cache directory that holds at most one
\* marker file for each prefix
InitClean ==
    /\ Init
    /\ Cardinality(GlobMatches(markers, BasePrefix)) <= 1
    /\ Cardinality(GlobMatches(markers, MetaPrefix)) <= 1

SpecClean == InitClean /\ [][Next]_vars

\* List with useLocalCacheOnly on a store of any rows
InitList ==
    /\ markers = {}
    /\ db = NoFile
    /\ remoteBase \in Digests
    /\ remoteMeta = ""
    /\ calls = [p \in Procs |-> IdleCall]
    /\ store \in Stores

NextList ==
    \E p \in SeqProcs :
        \/ Begin(p, "List", TRUE)
        \/ ListPlugins(p)

SpecList == InitList /\ [][NextList]_vars

\* List with useLocalCacheOnly=false called again and again while the
\* registry keeps serving the same two images; a call once begun goes on to
\* its end, and after a call the next one is made
NextStable ==
    \E p \in SeqProcs :
        \/ calls[p].pc \in {"idle", "done"} /\ Begin(p, "List", FALSE)
        \/ calls[p].pc \notin {"idle", "done"} /\ Step(p)

SpecStable == Init /\ [][NextStable]_vars /\ WF_vars(NextStable)

\* Calls made one after the other, each of the operation the call before
\* it was not: List after GetGroups, GetGroups after List
NextAlt ==
    \/ \E p \in SeqProcs :
          \/ \E op \in {"List", "GetGroups"}, local \in BOOLEAN :
                /\ calls[p].pc = "idle" \/ op # calls[p].op
                /\ Begin(p, op, local)
          \/ calls[p].pc \notin {"idle", "done"} /\ Step(p)
    \/ RemoteChangeBase
    \/ RemoteChangeMeta

SpecAlt == Init /\ [][NextAlt]_vars

\* The process is killed in the middle of a call.  What the call did to
\* pluginDataDir stays (a copy under way leaves the old file or a truncated
\* one); the next call remembers only whether the killed one had promoted
\* the database and not yet created a marker it had to create
Crash(p) ==
    LET c == calls[p]
        interrupted ==
            /\ Did(c, "copy", TRUE)
            /\ c.err = <<>>
            /\ \E n \in {c.newBase, c.newMeta} \ {<<>>} : n \notin markers
    IN  /\ c.pc \notin {"idle", "done"}
        /\ calls' = [calls EXCEPT ![p] =
                [IdleCall EXCEPT !.prev = [NoPrev EXCEPT !.cut = interrupted]]]
        /\ db' \in (IF c.pc = "copy" THEN {db, PartialFile} ELSE {db})
        /\ UNCHANGED <<markers, remoteBase, remoteMeta, store>>

\* First use of pluginDataDir: no marker file and no database yet
InitFresh ==
    /\ Init
    /\ markers = {}
    /\ db = NoFile

NextCrash == Next \/ \E p \in SeqProcs : Crash(p)

SpecCrash == InitFresh /\ [][NextCrash]_vars

\* Two invocations on the same pluginDataDir, each making one call, their
\* steps interleaved
InitConc ==
    /\ InitClean
    /\ db = NoFile

\* The step of p is one in which no collaborator fails, but for the digest
\* lookup of the inventory image and os.Create, and in which the registry
\* answers for the inventory metadata image by whether it holds one
QuietStep(p) ==
    LET before == calls[p].log
        after == calls'[p].log
    IN  /\ calls'[p].err = <<>> \/ calls[p].pc \in {"probeBase", "return"}
        /\ (after # before /\ after[Len(after)].what \in {"probeMeta", "downloadMeta"})
              => (after[Len(after)].ok <=> remoteMeta # "")

\* Each invocation is one List with useLocalCacheOnly=false and only the
\* inventory image is replaced in the registry: the interleaving alone is
\* under study
NextConc ==
    \/ \E p \in Procs : calls[p].pc = "idle" /\ Begin(p, "List", FALSE)
    \/ \E p \in Procs :
          /\ calls[p].pc \notin {"idle", "done"}
          /\ Step(p)
          /\ QuietStep(p)
    \/ RemoteChangeBase

SpecConc == InitConc /\ [][NextConc]_vars

----------------------------------------------------------------------------
(* Observations on a call *)

Finished(c) == c.pc = "done"

\* The call went through fetchInventoryImage and both digest probes
Probed(c) == Did(c, "probeBase", TRUE) /\ CountIn(c.log, "probeMeta") = 1

\* The two marker names checkImageCache computes from the probed digests
ExpectedMarkers(c) ==
    {HashFileName(c.hashBase, BasePrefix), HashFileName(c.hashMeta, MetaPrefix)}

\* fetchInventoryImage went past its test on the two names
RefreshStarted(c) == CountIn(c.log, "verify") = 1

\* downloadInventoryDatabase returned nil: the database was promoted
Promoted(c) == Did(c, "copy", TRUE)

\* The marker names whose os.Create failed in this call
FailedCreates(c) ==
    (IF Did(c, "createBase", FALSE) THEN {c.newBase} ELSE {})
        \cup (IF Did(c, "createMeta", FALSE) THEN {c.newMeta} ELSE {})

----------------------------------------------------------------------------
(* C1 - Unchanged source: when the cache directory holds exactly one base   *)
(* marker and one overlay marker naming the digests the probes return, a    *)
(* call with useLocalCacheOnly=false makes no signature verification and no *)
(* download, leaves the markers and the database unchanged and goes         *)
(* directly to the store query.                                             *)
C1_UnchangedSource ==
    \A p \in Procs :
        LET c == calls[p] IN
        (Finished(c) /\ ~c.local /\ Probed(c) /\ c.preMarkers = ExpectedMarkers(c))
            => /\ CountIn(c.log, "verify") = 0
               /\ CountIn(c.log, "downloadBase") = 0
               /\ CountIn(c.log, "downloadMeta") = 0
               /\ markers = c.preMarkers
               /\ db = c.preDb
               /\ Len(c.log) = 3
               /\ c.log[3].what = "query"

C1_Witness ==
    \E p \in Procs :
        LET c == calls[p] IN
        /\ Finished(c) /\ ~c.local /\ Probed(c)
        /\ c.preMarkers = ExpectedMarkers(c)
        /\ c.hashMeta = ""
        /\ c.preDb # NoFile
        /\ c.result = "rows"

----------------------------------------------------------------------------
\* The markers checkImageCache leaves of the set m for the digests the call
\* has probed
AfterCacheCheck(m, c) ==
    DigestFilesAfterCheck(DigestFilesAfterCheck(m, c.hashBase, BasePrefix),
                          c.hashMeta, MetaPrefix)

MarkerCount(prefix) == Cardinality(GlobMatches(markers, prefix))

(* C2, as claimed - Single-marker invariant: after a successful refresh     *)
(* exactly one marker file per prefix exists in the cache directory.        *)
C2_Claim ==
    \A p \in Procs :
        LET c == calls[p] IN
        (Finished(c) /\ Promoted(c))
            => MarkerCount(BasePrefix) = 1 /\ MarkerCount(MetaPrefix) = 1

(* C2, amended - after a successful refresh (fetchInventoryImage returned   *)
(* nil after promoting the database) each prefix has exactly one marker     *)
(* file, except a prefix whose marker could not be created (os.Create       *)
(* failed), which has none; this also from a start with several markers.    *)
C2_SingleMarker ==
    \A p \in Procs :
        LET c == calls[p] IN
        (Finished(c) /\ Promoted(c))
            => /\ MarkerCount(BasePrefix) =
                      IF Did(c, "createBase", FALSE) THEN 0 ELSE 1
               /\ MarkerCount(MetaPrefix) =
                      IF Did(c, "createMeta", FALSE) THEN 0 ELSE 1

C2_Witness ==
    \E p \in Procs :
        LET c == calls[p] IN
        /\ Finished(c) /\ Promoted(c)
        /\ Cardinality(GlobMatches(c.preMarkers, BasePrefix)) > 1
        /\ Cardinality(GlobMatches(c.preMarkers, MetaPrefix)) > 1
        /\ FailedCreates(c) = {}
        /\ MarkerCount(BasePrefix) = 1

(* C3, as claimed - Atomic-looking promotion: if the merge step fails, at   *)
(* the end of the call the database and the marker files are as they were   *)
(* before the call began.                                                   *)
C3_Claim ==
    \A p \in Procs :
        LET c == calls[p] IN
        (Finished(c) /\ Did(c, "merge", FALSE))
            => db = c.preDb /\ markers = c.preMarkers

(* C3, amended - if the merge step fails, at the end of the call the        *)
(* database is as before the call and no marker file was created; the       *)
(* marker files are those checkImageCache left: the ones of before the call *)
(* minus, per prefix, the marker that did not name the probed digest or     *)
(* all of them when there were several.                                     *)
C3_MergeFailure ==
    \A p \in Procs :
        LET c == calls[p] IN
        (Finished(c) /\ Did(c, "merge", FALSE))
            => /\ db = c.preDb
               /\ markers = AfterCacheCheck(c.preMarkers, c)
               /\ markers \subseteq c.preMarkers
               /\ c.result = "nil" /\ c.err # <<>>

C3_Witness ==
    \E p \in Procs :
        LET c == calls[p] IN
        /\ Finished(c) /\ Did(c, "merge", FALSE)
        /\ c.preDb \in Contents
        /\ markers # c.preMarkers
        /\ markers # {}

(* C4, as claimed - Verification failure: the call returns an error, no     *)
(* download occurs and the cache directory (database and marker files) is   *)
(* unchanged compared with its state before the call.                       *)
C4_Claim ==
    \A p \in Procs :
        LET c == calls[p] IN
        (Finished(c) /\ Did(c, "verify", FALSE))
            => /\ c.err # <<>>
               /\ CountIn(c.log, "downloadBase") + CountIn(c.log, "downloadMeta") = 0
               /\ db = c.preDb
               /\ markers = c.preMarkers

(* C4, amended - when the signature check fails the call returns an error,  *)
(* no download occurs, the database is unchanged and no marker file is      *)
(* created; the marker files that did not name the probed digests (or that  *)
(* were several for a prefix) have been deleted by the cache check that     *)
(* precedes the verification, the others are untouched.                     *)
C4_VerificationFailure ==
    \A p \in Procs :
        LET c == calls[p] IN
        (Finished(c) /\ Did(c, "verify", FALSE))
            => /\ c.err # <<>> /\ c.result = "nil"
               /\ CountIn(c.log, "downloadBase") + CountIn(c.log, "downloadMeta") = 0
               /\ CountIn(c.log, "mkTemp1") = 0
               /\ db = c.preDb
               /\ markers = AfterCacheCheck(c.preMarkers, c)
               /\ markers \subseteq c.preMarkers

C4_Witness ==
    \E p \in Procs :
        LET c == calls[p] IN
        /\ Finished(c) /\ Did(c, "verify", FALSE)
        /\ c.preDb \in Contents
        /\ Cardinality(c.preMarkers) = 2
        /\ Cardinality(markers) = 1

(* C5 - Overlay independence: with a base marker that matches the probed    *)
(* base digest, a change of overlay presence since the overlay marker was   *)
(* written makes checkImageCache return a non-empty overlay marker name,    *)
(* and the call goes on to the signature verification and, once that and    *)
(* the temporary directories succeed, to the download.                      *)
OverlayPresenceChanged(c) ==
    \E m \in MetaDigests \cup {""} :
        /\ GlobMatches(c.preMarkers, MetaPrefix) = {HashFileName(m, MetaPrefix)}
        /\ (m = "") # (c.hashMeta = "")

C5_Case(c) ==
    /\ Probed(c) /\ c.pc # "checkMeta"
    /\ GlobMatches(c.preMarkers, BasePrefix) = {HashFileName(c.hashBase, BasePrefix)}
    /\ OverlayPresenceChanged(c)

C5_OverlayIndependence ==
    \A p \in Procs :
        LET c == calls[p] IN
        C5_Case(c)
            => /\ c.newBase = <<>>
               /\ c.newMeta # <<>>
               /\ c.newMeta = HashFileName(c.hashMeta, MetaPrefix)
               /\ c.pc = "verify" \/ RefreshStarted(c)
               /\ (Finished(c) /\ Did(c, "mkTemp2", TRUE))
                     => CountIn(c.log, "downloadBase") = 1

C5_Witness ==
    \E p \in Procs :
        LET c == calls[p] IN
        /\ C5_Case(c) /\ Finished(c)
        /\ c.hashMeta = ""
        /\ Did(c, "downloadBase", TRUE)

(* C6, as claimed - Marker identity after refresh: after a refresh that     *)
(* succeeds the marker files are exactly digest.<b> and                     *)
(* metadata.digest.<o>, b and o the digests probed in that call, "none"     *)
(* for an overlay probe that returned no digest.                            *)
C6_Claim ==
    \A p \in Procs :
        LET c == calls[p] IN
        (Finished(c) /\ Promoted(c)) => markers = ExpectedMarkers(c)

(* C6, amended - after a refresh that succeeds the marker files are exactly *)
(* digest.<b> and metadata.digest.<o> for the digests probed in that call   *)
(* ("none" for no overlay digest), less those of the two whose creation     *)
(* failed in that call; no other marker file is left.                       *)
C6_MarkerIdentity ==
    \A p \in Procs :
        LET c == calls[p] IN
        (Finished(c) /\ Promoted(c))
            => markers = ExpectedMarkers(c) \ FailedCreates(c)

\* The air-gapped switch: digest.<b> and metadata.digest.none before, an
\* overlay digest probed, both markers in place after
C6_Witness ==
    \E p \in Procs :
        LET c == calls[p] IN
        /\ Finished(c) /\ Promoted(c)
        /\ c.preMarkers = {HashFileName(c.hashBase, BasePrefix),
                           HashFileName("", MetaPrefix)}
        /\ c.hashMeta \in MetaDigests
        /\ markers = {HashFileName(c.hashBase, BasePrefix),
                      HashFileName(c.hashMeta, MetaPrefix)}

(* C7, as claimed - Idempotence of validation: of two calls in a row whose  *)
(* probes return the same digests, the second finds no refresh needed       *)
(* (both names returned by checkImageCache empty) and makes no signature    *)
(* verification and no download.                                           *)
SecondOfTwo(c) ==
    /\ Finished(c) /\ Probed(c)
    /\ c.prev.checked
    /\ c.hashBase = c.prev.hashBase
    /\ c.hashMeta = c.prev.hashMeta

NoRefresh(c) ==
    /\ c.newBase = <<>> /\ c.newMeta = <<>>
    /\ CountIn(c.log, "verify") = 0
    /\ CountIn(c.log, "downloadBase") = 0
    /\ CountIn(c.log, "downloadMeta") = 0

C7_Claim ==
    \A p \in Procs : SecondOfTwo(calls[p]) => NoRefresh(calls[p])

(* C7, amended - of two calls in a row whose probes return the same         *)
(* digests, when in the first fetchInventoryImage returned nil and no       *)
(* marker creation failed, the second finds no refresh needed (both names   *)
(* empty), makes no signature verification and no download, and leaves      *)
(* markers and database as they were.                                       *)
C7_Idempotence ==
    \A p \in Procs :
        LET c == calls[p] IN
        (SecondOfTwo(c) /\ c.prev.ok)
            => /\ NoRefresh(c)
               /\ markers = c.preMarkers
               /\ db = c.preDb

\* The second call after a first one that refreshed
C7_Witness ==
    \E p \in Procs :
        LET c == calls[p] IN
        /\ SecondOfTwo(c) /\ c.prev.ok
        /\ c.preDb = [base |-> c.hashBase, meta |-> "none"]
        /\ c.preMarkers = ExpectedMarkers(c)
        /\ Len(c.log) = 3

(* C8 - Resolution failure: when the digest probe of the base image fails   *)
(* the error names the image reference and nothing else happens: no marker  *)
(* deleted or created, database untouched, overlay not probed, no           *)
(* verification, no download.                                               *)
C8_ResolutionFailure ==
    \A p \in Procs :
        LET c == calls[p] IN
        Did(c, "probeBase", FALSE)
            => /\ c.pc \in {"return", "done"}
               /\ \E i \in 1..Len(c.err) : c.err[i] = Image
               /\ c.log = <<Ev("probeBase", FALSE)>>
               /\ markers = c.preMarkers
               /\ db = c.preDb
               /\ c.newBase = <<>> /\ c.newMeta = <<>>
               /\ Finished(c) => c.result = "nil"

C8_Witness ==
    \E p \in Procs :
        LET c == calls[p] IN
        /\ Finished(c) /\ Did(c, "probeBase", FALSE)
        /\ Cardinality(c.preMarkers) > 2
        /\ c.preDb \in Contents

(* C9, as claimed - Overlay absence is not an error: when the overlay       *)
(* digest probe fails or the overlay download fails, no merge is invoked,   *)
(* the refresh goes on to promote the base content as downloaded, and       *)
(* fetchInventoryImage returns nil once the copy succeeds.                  *)
C9_Claim ==
    \A p \in Procs :
        LET c == calls[p] IN
        (CountIn(c.log, "downloadMeta") = 1
            /\ (Did(c, "probeMeta", FALSE) \/ Did(c, "downloadMeta", FALSE)))
            => /\ c.pc # "merge"
               /\ CountIn(c.log, "merge") = 0
               /\ c.pc = "copy" => c.tmp1.meta = "none"
               /\ Promoted(c) => db.meta = "none"
               /\ (Promoted(c) /\ Finished(c)) => CountIn(c.log, "query") = 1

(* C10 - Catalog replacement only on success: the database changes only in  *)
(* the copy step of a call whose signature verification and base download   *)
(* succeeded and whose overlay either failed to download or was merged; a   *)
(* call that fails at verification, base download or merge, or that needs   *)
(* no refresh, ends with the database as it was.                            *)
C10_Step ==
    db' # db
        => \E p \in Procs :
              LET c == calls[p] IN
              /\ c.pc = "copy"
              /\ Did(c, "verify", TRUE)
              /\ Did(c, "downloadBase", TRUE)
              /\ Did(c, "downloadMeta", FALSE) \/ Did(c, "merge", TRUE)

C10_Unchanged ==
    \A p \in Procs :
        LET c == calls[p] IN
        (Finished(c) /\ (\/ ~RefreshStarted(c)
                         \/ Did(c, "verify", FALSE)
                         \/ Did(c, "downloadBase", FALSE)
                         \/ Did(c, "merge", FALSE)))
            => db = c.preDb

C10_CatalogReplacement == [](C10_Unchanged) /\ [][C10_Step]_vars

C10_Witness ==
    \E p \in Procs :
        LET c == calls[p] IN
        /\ Finished(c) /\ Promoted(c)
        /\ Did(c, "merge", TRUE)
        /\ c.preDb \in Contents
        /\ db # c.preDb


(* C11 - Signature before download: within one refresh the signature       *)
(* verifier is called exactly once, before any download, and a download of  *)
(* the base or overlay image happens only after the verification succeeded  *)
(* in that same call.                                                       *)
IsDownload(e) == e.what \in {"downloadBase", "downloadMeta"}

\* The call is in, or has been through, the refresh part of
\* fetchInventoryImage (past the verification)
PastVerify(c) ==
    c.pc \in {"mkTemp1", "mkTemp2", "downloadBase", "downloadMeta", "merge",
              "copy", "cleanup", "createBase", "createMeta"}
        \/ \E i \in 1..Len(c.log) :
              c.log[i].what \in {"mkTemp1", "createBase", "createMeta"}

C11_SignatureBeforeDownload ==
    \A p \in Procs :
        LET c == calls[p] IN
        /\ CountIn(c.log, "verify") <= 1
        /\ PastVerify(c) => CountIn(c.log, "verify") = 1
        /\ \A i \in 1..Len(c.log) :
              IsDownload(c.log[i])
                  => \E j \in 1..(i - 1) : c.log[j] = Ev("verify", TRUE)

C11_Witness ==
    \E p \in Procs :
        LET c == calls[p] IN
        /\ Finished(c)
        /\ Did(c, "verify", TRUE)
        /\ Did(c, "downloadBase", TRUE)
        /\ Did(c, "downloadMeta", TRUE)

(* C12, as claimed - Temporary locations are always released: on every exit *)
(* path of downloadInventoryDatabase every temporary directory the call     *)
(* created has been removed when the call returns.                          *)
DownloadReturned(c) ==
    /\ CountIn(c.log, "mkTemp1") = 1
    /\ c.pc \in {"return", "createBase", "createMeta", "query", "done"}

C12_Claim ==
    \A p \in Procs :
        LET c == calls[p] IN
        DownloadReturned(c) => ~c.dir1 /\ ~c.dir2

(* C13 - Local-cache-only: with useLocalCacheOnly set, List and GetGroups   *)
(* make no digest probe, signature verification or download, create,        *)
(* delete or replace no marker file and no database, and run the query      *)
(* directly, whatever the markers are.                                      *)
C13_LocalCacheOnly ==
    \A p \in Procs :
        LET c == calls[p] IN
        (c.local /\ c.pc # "idle")
            => /\ c.pc \in {"query", "done"}
               /\ c.pc = "query" => c.log = <<>>
               /\ Finished(c)
                     => Len(c.log) = 1 /\ c.log[1].what = "query"
               /\ markers = c.preMarkers
               /\ db = c.preDb
               /\ ~c.dir1 /\ ~c.dir2

\* A local-only call on a directory whose markers are not current
C13_Witness ==
    \E p \in Procs :
        LET c == calls[p] IN
        /\ Finished(c) /\ c.local
        /\ c.result = "rows"
        /\ MarkerCount(BasePrefix) > 1
        /\ HashFileName(remoteMeta, MetaPrefix) \notin markers


(* C15 - Marker-creation failure is non-fatal: when creating a needed       *)
(* marker fails after the promotion, fetchInventoryImage still returns nil  *)
(* (the call goes on to the query), the marker is not in the cache          *)
(* directory, and the next call that is not local-only and probes the same  *)
(* digests starts a refresh again.                                          *)
C15_MarkerCreationFailure ==
    \A p \in Procs :
        LET c == calls[p] IN
        /\ (Finished(c) /\ FailedCreates(c) # {})
              => /\ Promoted(c)
                 /\ CountIn(c.log, "query") = 1
                 /\ c.log[Len(c.log)].what = "query"
                 /\ c.err \in {<<>>, ErrQuery}
                 /\ FailedCreates(c) \cap markers = {}
        /\ (SecondOfTwo(c) /\ c.prev.unmarked)
              => /\ c.newBase # <<>> \/ c.newMeta # <<>>
                 /\ RefreshStarted(c)

\* A call after one whose marker creation failed, with the same digests
C15_Witness ==
    \E p \in Procs :
        LET c == calls[p] IN
        /\ SecondOfTwo(c) /\ c.prev.unmarked
        /\ Did(c, "downloadBase", TRUE)
        /\ Did(c, "createBase", FALSE)
        /\ c.result = "rows"

(* C16 - No results alongside a fatal error: when fetchInventoryImage fails *)
(* (base probe, verification, temporary directory, base download, merge or  *)
(* copy), List and GetGroups return nil with one error that wraps the       *)
(* failure and names the discovery, and the store is not queried.           *)
FetchFailed(c) ==
    \E what \in {"probeBase", "verify", "mkTemp1", "mkTemp2", "downloadBase",
                  "merge", "copy"} : Did(c, what, FALSE)

C16_NoResultsWithError ==
    \A p \in Procs :
        LET c == calls[p] IN
        (Finished(c) /\ FetchFailed(c))
            => /\ c.result = "nil"
               /\ CountIn(c.log, "query") = 0
               /\ \E cause \in {ErrResolution, ErrVerify, ErrTempDir,
                                 ErrDownload, ErrMerge, ErrCopy} :
                     c.err = (IF c.op = "List" THEN ListWrap(cause)
                                               ELSE GetGroupsWrap(cause))
               /\ \E i \in 1..Len(c.err) : c.err[i] = DiscoveryName

C16_Witness ==
    \E p \in Procs :
        LET c == calls[p] IN
        /\ Finished(c) /\ c.op = "GetGroups"
        /\ Did(c, "merge", FALSE)
        /\ c.result = "nil"


(* C18 - Markers are created only after promotion: a marker file is created *)
(* only in a call whose copy into the cache directory succeeded, and only   *)
(* under a name checkImageCache returned; a call that fails at              *)
(* verification, download, merge or copy creates none; no step replaces a   *)
(* marker by another (a step deletes markers or adds one, never both).      *)
MarkerCreatedBy(p) ==
    LET c == calls[p] IN
    /\ c.pc \in {"createBase", "createMeta"}
    /\ Promoted(c)
    /\ c.err = <<>>
    /\ \E n \in {c.newBase, c.newMeta} \ {<<>>} :
          /\ n = (IF c.pc = "createBase" THEN c.newBase ELSE c.newMeta)
          /\ n \notin markers
          /\ markers' = markers \cup {n}

C18_Step ==
    markers' # markers
        => \/ markers' \subseteq markers
           \/ \E p \in Procs : MarkerCreatedBy(p)

C18_FailedCallCreatesNone ==
    \A p \in Procs :
        LET c == calls[p] IN
        (Finished(c) /\ FetchFailed(c))
            => /\ markers \subseteq c.preMarkers
               /\ CountIn(c.log, "createBase") = 0
               /\ CountIn(c.log, "createMeta") = 0

C18_MarkersAfterPromotion == [](C18_FailedCallCreatesNone) /\ [][C18_Step]_vars

\* A refresh that deleted the stale base marker and, after the promotion,
\* created the new one
C18_Witness ==
    \E p \in Procs :
        LET c == calls[p] IN
        /\ Finished(c) /\ Promoted(c)
        /\ Did(c, "createBase", TRUE)
        /\ c.newBase \in markers /\ c.newBase \notin c.preMarkers
        /\ \E f \in c.preMarkers : f[1] = "digest" /\ f \notin markers

(* C19 - Per-prefix check outcome: checkDigestFileExistence returns the     *)
(* empty name if and only if exactly one marker of the prefix exists and it *)
(* is '<prefix>digest.<value>' ('none' for an empty digest), and then       *)
(* deletes nothing; otherwise (no marker, one other marker, several markers *)
(* even with the expected one among them) it returns the expected name,     *)
(* leaves no marker of that prefix, leaves the markers of the other prefix  *)
(* as they are, and reports no error.                                       *)
OfPrefix(f, kind) ==
    IF kind = "base" THEN f[1] = "digest" ELSE f[1] = "metadata"

ExpectedName(kind, hash) ==
    LET value == IF hash = "" THEN "none" ELSE hash
    IN  IF kind = "base" THEN <<"digest", value>>
                         ELSE <<"metadata", "digest", value>>

CheckOutcome(p, kind, hash, returned) ==
    LET existing == {f \in markers : OfPrefix(f, kind)}
        expected == ExpectedName(kind, hash)
    IN  /\ (returned = <<>>) <=> (existing = {expected})
        /\ returned = <<>> => markers' = markers
        /\ returned # <<>>
              => /\ returned = expected
                 /\ markers' = markers \ existing
        /\ calls'[p].err = <<>>
        /\ calls'[p].log = calls[p].log

C19_Step ==
    \A p \in Procs :
        /\ (calls[p].pc = "checkBase" /\ calls'[p].pc # "checkBase")
              => CheckOutcome(p, "base", calls[p].hashBase, calls'[p].newBase)
        /\ (calls[p].pc = "checkMeta" /\ calls'[p].pc # "checkMeta")
              => CheckOutcome(p, "meta", calls[p].hashMeta, calls'[p].newMeta)

C19_CheckOutcome == [][C19_Step]_vars

\* Several base markers, the expected one among them: all deleted, the
\* expected name returned, the overlay markers left
C19_Witness ==
    \E p \in Procs :
        LET c == calls[p] IN
        /\ c.pc = "probeMeta"
        /\ c.newBase = ExpectedName("base", c.hashBase)
        /\ c.newBase \in c.preMarkers
        /\ Cardinality({f \in c.preMarkers : OfPrefix(f, "base")}) = 2
        /\ {f \in markers : OfPrefix(f, "base")} = {}
        /\ {f \in markers : OfPrefix(f, "meta")} # {}


(* C17 - At most one marker per prefix at any time: from a cache directory  *)
(* with at most one marker file per prefix, every state reached by calls    *)
(* made one after the other (the registry changing between them, any        *)
(* collaborator failing) has at most one base marker and at most one        *)
(* overlay marker.                                                          *)
C17_AtMostOneMarker ==
    /\ MarkerCount(BasePrefix) <= 1
    /\ MarkerCount(MetaPrefix) <= 1

\* A call that found the marker of an older base digest and replaced it
C17_Witness ==
    \E p \in Procs :
        LET c == calls[p] IN
        /\ Finished(c)
        /\ c.prev.checked /\ c.prev.hashBase # c.hashBase
        /\ HashFileName(c.prev.hashBase, BasePrefix) \in c.preMarkers
        /\ Did(c, "createBase", TRUE) /\ Did(c, "createMeta", TRUE)
        /\ MarkerCount(BasePrefix) = 1
        /\ MarkerCount(MetaPrefix) = 1


(* C20 - Concurrent refreshes on one cacheDir are not safe: two             *)
(* fetchInventoryImage invocations on the same directory, the inventory     *)
(* image being replaced between their two probes, can end with two base     *)
(* marker files (C20_Witness is such an end).  Two markers of a prefix      *)
(* arise in no other way: both invocations probed different digests and     *)
(* each created its own marker; the overlay prefix, whose digest both       *)
(* invocations probe alike, never has more than one.                        *)
C20_ConcurrentRefreshes ==
    /\ MarkerCount(BasePrefix) <= Cardinality(Procs)
    /\ MarkerCount(MetaPrefix) <= 1
    /\ MarkerCount(BasePrefix) > 1
          => /\ \A p \in Procs : Did(calls[p], "createBase", TRUE)
             /\ \A p, q \in Procs :
                   p # q => calls[p].hashBase # calls[q].hashBase
             /\ GlobMatches(markers, BasePrefix)
                   = {calls[p].newBase : p \in Procs}

\* Both invocations returned without error and left two base markers
C20_Witness ==
    /\ \A p \in Procs :
          /\ Finished(calls[p])
          /\ calls[p].result = "rows"
          /\ Promoted(calls[p])
    /\ MarkerCount(BasePrefix) > 1


(* C14, as claimed - Crash between promotion and marking is safe: a refresh *)
(* that stops after the copy into the cache directory and before the        *)
(* markers are all created leaves a valid database and a marker missing, so *)
(* the check of the next call reports a refresh needed; and in no state     *)
(* reached by calls made one after the other, some cut short, do both       *)
(* markers name the current digests of the registry while the database is   *)
(* not the content of those digests.                                        *)
CurrentContent ==
    IF remoteMeta = "" THEN BaseContent(remoteBase)
    ELSE MergedContent(BaseContent(remoteBase), remoteMeta)

MarkedFresh ==
    /\ GlobMatches(markers, BasePrefix) = {HashFileName(remoteBase, BasePrefix)}
    /\ GlobMatches(markers, MetaPrefix) = {HashFileName(remoteMeta, MetaPrefix)}

C14_CrashWindow ==
    \A p \in Procs :
        LET c == calls[p] IN
        (Promoted(c) /\ c.pc \in {"cleanup", "createBase"})
            => /\ db \in Contents
               /\ \E n \in {c.newBase, c.newMeta} \ {<<>>} : n \notin markers
               /\ \/ MarkerCount(BasePrefix) = 0
                  \/ MarkerCount(MetaPrefix) = 0

C14_NextCheck ==
    \A p \in Procs :
        LET c == calls[p] IN
        (c.prev.cut /\ Probed(c) /\ c.pc # "checkMeta")
            => /\ c.newBase # <<>> \/ c.newMeta # <<>>
               /\ c.pc \in {"query", "return", "done"} => RefreshStarted(c)

C14_Claim ==
    /\ C14_CrashWindow
    /\ C14_NextCheck
    /\ ~(MarkedFresh /\ db # CurrentContent)


(* C21, as claimed - Same refresh gate for plugins and groups: List and     *)
(* GetGroups apply the same gate with the same effect on the cache          *)
(* directory; after a successful refresh by either, a following call of the *)
(* other with the same digests makes no verification and no download.       *)
(* Stated on SpecAlt, where every call follows a call of the other          *)
(* operation.                                                               *)
OtherAfterRefresh(c) ==
    /\ SecondOfTwo(c)
    /\ c.prev.refreshed
    /\ c.prev.ok \/ c.prev.unmarked

\* What fetchInventoryImage does is decided by the markers and the probed
\* digests alone: the names computed, the refresh started or skipped
GateOf(c) ==
    /\ (~c.local /\ c.pc \notin {"idle", "probeBase"})
          => CountIn(c.log, "probeBase") = 1
    /\ (Probed(c) /\ c.pc \notin {"checkMeta", "idle"})
        => /\ c.newBase = checkDigestFileExistence(c.preMarkers, c.hashBase, BasePrefix)
           /\ c.newMeta = checkDigestFileExistence(c.preMarkers, c.hashMeta, MetaPrefix)
           /\ (c.newBase = <<>> /\ c.newMeta = <<>>)
                 <=> (c.pc \in {"query", "done"} /\ ~RefreshStarted(c))

C21_Claim ==
    \A p \in Procs :
        LET c == calls[p] IN
        /\ GateOf(c)
        /\ OtherAfterRefresh(c) => NoRefresh(c)

(* C21, amended - the same, the following call making no verification and   *)
(* no download when no marker creation failed in the refresh of the first.  *)
C21_SameGate ==
    \A p \in Procs :
        LET c == calls[p] IN
        /\ GateOf(c)
        /\ (OtherAfterRefresh(c) /\ c.prev.ok)
              => /\ NoRefresh(c)
                 /\ markers = c.preMarkers /\ db = c.preDb

\* GetGroups right after a List that refreshed the cache
C21_Witness ==
    \E p \in Procs :
        LET c == calls[p] IN
        /\ OtherAfterRefresh(c) /\ c.prev.ok
        /\ c.op = "GetGroups"
        /\ c.result = "rows"


(* C23, as claimed - Marker agrees with merged content: after a             *)
(* fetchInventoryImage that refreshed the database and returned nil with    *)
(* all markers written, an overlay marker naming a digest means that        *)
(* overlay was merged into the database, and the marker 'none' means the    *)
(* database is the base content unmerged, also when the overlay probe and   *)
(* the overlay download of the call disagree.                               *)
RefreshedAndMarked(c) ==
    /\ c.pc \in {"query", "done"}
    /\ Promoted(c)
    /\ FailedCreates(c) = {}
    /\ ExpectedMarkers(c) \subseteq markers

C23_Claim ==
    \A p \in Procs :
        LET c == calls[p] IN
        RefreshedAndMarked(c)
            => /\ c.hashMeta # "" => db.meta = c.hashMeta
               /\ c.hashMeta = "" => db.meta = "none"

(* C24 - A failed refresh forces the next one: after a call that made the   *)
(* cache check and then returned an error (verification, temporary          *)
(* directory, download, merge or copy), at least one of the two expected    *)
(* markers is absent, and the next call with the same digests finds a       *)
(* refresh needed again.                                                    *)
FailedAfterCheck(c) == Finished(c) /\ Probed(c) /\ FetchFailed(c)

C24_FailedRefresh ==
    \A p \in Procs :
        LET c == calls[p] IN
        /\ FailedAfterCheck(c)
              => /\ \E n \in ExpectedMarkers(c) : n \notin markers
                 /\ \/ MarkerCount(BasePrefix) = 0
                    \/ MarkerCount(MetaPrefix) = 0
        /\ (SecondOfTwo(c) /\ ~c.prev.ok /\ ~c.prev.unmarked)
              => /\ c.newBase # <<>> \/ c.newMeta # <<>>
                 /\ RefreshStarted(c)

\* A call that succeeds after one that failed at the copy
C24_Witness ==
    \E p \in Procs :
        LET c == calls[p] IN
        /\ SecondOfTwo(c) /\ ~c.prev.ok /\ ~c.prev.unmarked
        /\ c.preDb = PartialFile
        /\ Promoted(c)
        /\ ExpectedMarkers(c) \subseteq markers


(* C22 - Version-parse failure is non-fatal: when sorting the versions of   *)
(* an entry reports an error, listPluginsFromInventory goes on: the entry   *)
(* is in the result with its versions, every other entry is returned too    *)
(* (one result per row of the store, in the order of the rows), and the     *)
(* call returns no error.                                                   *)
Unparsable(entry) == \E v \in entry.Artifacts : ParseVersion(v) = <<>>

Listed(c) ==
    /\ Finished(c) /\ c.op = "List"
    /\ Did(c, "query", TRUE)
    /\ \E i \in DOMAIN store : Unparsable(store[i])

C22_VersionParseFailure ==
    \A p \in Procs :
        LET c == calls[p] IN
        Listed(c)
            => /\ c.err = <<>>
               /\ Len(c.result) = Len(store)
               /\ \A i \in DOMAIN store :
                     /\ c.result[i].Name = store[i].Name
                     /\ c.result[i].Distribution = store[i].Artifacts
                     /\ Len(c.result[i].SupportedVersions)
                           = Cardinality(store[i].Artifacts)
                     /\ {c.result[i].SupportedVersions[k] :
                            k \in DOMAIN c.result[i].SupportedVersions}
                           = store[i].Artifacts

\* Two rows, the first with a version that does not parse among others,
\* the second with versions that all parse
C22_Witness ==
    \E p \in Procs :
        LET c == calls[p] IN
        /\ Listed(c)
        /\ Len(store) = 2
        /\ store[1].Artifacts = VersionStrings
        /\ store[2].Artifacts = {"1.2.0", "1.10.0"}
        /\ c.result[2].SupportedVersions = <<"1.2.0", "1.10.0">>


(* C25 - Self-stabilisation: from any markers (several per prefix too) and  *)
(* any database, with the registry serving the same digests, once the       *)
(* collaborators no longer fail, repeated List calls with                   *)
(* useLocalCacheOnly=false reach, and stay in, the state with exactly the   *)
(* two expected markers; a call that starts there makes no verification     *)
(* and no download; one call in which every collaborator succeeds reaches   *)
(* it.                                                                      *)
StableMarkers ==
    markers = {HashFileName(remoteBase, BasePrefix),
               HashFileName(remoteMeta, MetaPrefix)}

\* The collaborator called last answered as it does when nothing fails:
\* lookup and download of the metadata image succeed when there is one
GoodEvent(e) ==
    IF e.what \in {"probeMeta", "downloadMeta"}
    THEN e.ok <=> remoteMeta # ""
    ELSE e.ok

GoodStep ==
    \A p \in Procs :
        LET before == calls[p].log
            after == calls'[p].log
        IN  (after # before /\ after # <<>>) => GoodEvent(after[Len(after)])

AllGood(c) == \A i \in 1..Len(c.log) : GoodEvent(c.log[i])

C25_OneGoodCall ==
    \A p \in Procs :
        LET c == calls[p] IN
        /\ (Finished(c) /\ ~c.local /\ AllGood(c))
              => /\ StableMarkers
                 /\ c.result = "rows"
        /\ (Finished(c) /\ ~c.local /\ AllGood(c)
                /\ c.preMarkers = markers /\ StableMarkers)
              => NoRefresh(c)

C25_SelfStabilisation ==
    /\ []C25_OneGoodCall
    /\ (<>[][GoodStep]_vars) => <>[]StableMarkers

\* The expected markers reached from several markers per prefix, by the
\* call that followed a failed one
C25_Witness ==
    \E p \in Procs :
        LET c == calls[p] IN
        /\ Finished(c) /\ AllGood(c) /\ StableMarkers
        /\ c.prev.checked /\ ~c.prev.ok /\ ~c.prev.unmarked
        /\ Promoted(c)
        /\ c.preMarkers = {}
        /\ c.preDb = PartialFile

====
